---- MODULE Spec2Model ----
(***************************************************************************)
(* Model of src/NotenOderSo.py (Schulnoten-Manager): a Streamlit script    *)
(* that keeps a record set of students, subjects and grades in the session *)
(* state, saves it as one JSON document after each mutation, and exports   *)
(* and imports it as CSV.                                                  *)
(*                                                                         *)
(* Representation.  A Python str is a sequence of one-character strings    *)
(* (a Text); the id prefix "schueler_" is kept as one unit because no      *)
(* operation looks inside it.  A value read from a CSV cell that is not a  *)
(* str is a sequence that starts with a type tag: <<"#nan">> for float     *)
(* NaN, <<"#int", digits...>> and <<"#float", digits...>> for numbers.     *)
(* Python's None is <<"#None">>.  A dict is a function; insertion order is *)
(* not kept, since no modelled result depends on it.  A grade is held in   *)
(* tenths (1.3 is 13) and an average in hundredths (1.35 is 135).          *)
(***************************************************************************)
EXTENDS Integers, Sequences, FiniteSets, TLC

VARIABLES
    data,                    \* st.session_state.data
    disk,                    \* the file noten_db.json
    selected,                \* the selectbox of the edit page: "new" or "student"
    selected_student,        \* st.session_state.selected_student
    confirm_delete_student,  \* st.session_state["confirm_delete_student"]
    clock,                   \* datetime.now(), in seconds
    shown                    \* the st.error message on the screen, if any

vars == <<data, disk, selected, selected_student, confirm_delete_student,
          clock, shown>>

----------------------------------------------------------------------------
(* Bounds of the model.                                                    *)

MaxStudents == 2
MaxSubjects == 2
MaxGrades == 3
MaxClock == 1
MaxRows == 2

----------------------------------------------------------------------------
(* Python values and str methods.                                          *)

None == <<"#None">>
NaN == <<"#nan">>

TypeTags == {"#None", "#nan", "#int", "#float"}

\* isinstance(v, str)
IsStr(v) == v = <<>> \/ Head(v) \notin TypeTags

DigitChars == {"0", "1", "2", "3", "4", "5", "6", "7", "8", "9"}

DigitChar(n) == CASE n = 0 -> "0" [] n = 1 -> "1" [] n = 2 -> "2" [] n = 3 -> "3"
                  [] n = 4 -> "4" [] n = 5 -> "5" [] n = 6 -> "6" [] n = 7 -> "7"
                  [] n = 8 -> "8" [] n = 9 -> "9"

\* str(n) / f"{n}" for a non-negative int
RECURSIVE Digits(_)
Digits(n) == IF n < 10 THEN <<DigitChar(n)>>
             ELSE Digits(n \div 10) \o <<DigitChar(n % 10)>>

\* str.strip() on the left and on the right (the whitespace of the model is " ")
RECURSIVE LStrip(_)
LStrip(s) == IF s # <<>> /\ Head(s) = " " THEN LStrip(Tail(s)) ELSE s

RECURSIVE RStrip(_)
RStrip(s) == IF s # <<>> /\ s[Len(s)] = " "
             THEN RStrip(SubSeq(s, 1, Len(s) - 1)) ELSE s

Strip(s) == RStrip(LStrip(s))

UpperChars == <<"A", "B", "C", "D", "E", "F", "G", "H", "I", "J", "K", "L", "M",
                "N", "O", "P", "Q", "R", "S", "T", "U", "V", "W", "X", "Y", "Z">>
LowerChars == <<"a", "b", "c", "d", "e", "f", "g", "h", "i", "j", "k", "l", "m",
                "n", "o", "p", "q", "r", "s", "t", "u", "v", "w", "x", "y", "z">>

LowerChar(c) == IF \E i \in DOMAIN UpperChars : UpperChars[i] = c
                THEN LowerChars[CHOOSE i \in DOMAIN UpperChars : UpperChars[i] = c]
                ELSE c

\* str.lower()
Lower(s) == [i \in DOMAIN s |-> LowerChar(s[i])]

\* str.replace(" ", "_")
ReplaceSpace(s) == [i \in DOMAIN s |-> IF s[i] = " " THEN "_" ELSE s[i]]

\* new_subject.strip().lower().replace(" ", "_") and subj_name.lower().replace(" ", "_")
SubjKey(name) == ReplaceSpace(Lower(name))

\* str(v) / f"{v}" of a value held in the record set or read from a CSV cell
PyStr(v) == IF IsStr(v) THEN v
            ELSE IF v = NaN THEN <<"n", "a", "n">>
            ELSE IF v = None THEN <<"N", "o", "n", "e">>
            ELSE Tail(v)

----------------------------------------------------------------------------
(* dict helpers.                                                           *)

EmptyDict == <<>>

DictSet(d, k, v) == [x \in DOMAIN d \cup {k} |-> IF x = k THEN v ELSE d[x]]

DictDel(d, k) == [x \in DOMAIN d \ {k} |-> d[x]]

RECURSIVE SumSeq(_)
SumSeq(s) == IF s = <<>> THEN 0 ELSE Head(s) + SumSeq(Tail(s))

\* the values of a dict as a sequence, in some order
RECURSIVE DictValues(_)
DictValues(d) == IF DOMAIN d = {} THEN <<>>
                 ELSE LET k == CHOOSE k \in DOMAIN d : TRUE
                      IN <<d[k]>> \o DictValues(DictDel(d, k))

----------------------------------------------------------------------------
(* Grade scale.                                                            *)

NOTE_TEXT_TO_DECIMAL ==
    (<<"1", "+">> :> 7)  @@ (<<"1">> :> 10) @@ (<<"1", "-">> :> 13) @@
    (<<"2", "+">> :> 17) @@ (<<"2">> :> 20) @@ (<<"2", "-">> :> 23) @@
    (<<"3", "+">> :> 27) @@ (<<"3">> :> 30) @@ (<<"3", "-">> :> 33) @@
    (<<"4", "+">> :> 37) @@ (<<"4">> :> 40) @@ (<<"4", "-">> :> 43) @@
    (<<"5", "+">> :> 47) @@ (<<"5">> :> 50) @@ (<<"5", "-">> :> 53) @@
    (<<"6">> :> 60)

ALL_GRADE_OPTIONS == DOMAIN NOTE_TEXT_TO_DECIMAL

GradeValues == {NOTE_TEXT_TO_DECIMAL[t] : t \in ALL_GRADE_OPTIONS}

\* [k for k, v in NOTE_TEXT_TO_DECIMAL.items() if v == grade][0]
TagOf(grade) == CHOOSE t \in ALL_GRADE_OPTIONS : NOTE_TEXT_TO_DECIMAL[t] = grade

----------------------------------------------------------------------------
(* Averages.  round(x, 2) of a float x = num/den (in hundredths) is the    *)
(* nearest hundredth; when num/den lies exactly halfway between two        *)
(* hundredths the binary float is a little above or below the tie, so the  *)
(* result is either neighbour: the operators return the set of results     *)
(* the build can produce.                                                  *)

AvgNone == -1

\* round(num / den, 2), in hundredths
Round2(num, den) ==
    LET lo == num \div den
        rem == num % den
    IN IF 2 * rem < den THEN {lo}
       ELSE IF 2 * rem > den THEN {lo + 1}
       ELSE {lo, lo + 1}

calculate_subject_average(grades) ==
    IF grades = <<>> THEN {AvgNone}
    ELSE Round2(10 * SumSeq(grades), Len(grades))

\* the lists subject_avgs the loop of calculate_student_average can build,
\* as <<sum, length>>, over the subjects in `subjs` (a sequence)
RECURSIVE SubjectAvgs(_)
SubjectAvgs(subjs) ==
    IF subjs = <<>> THEN {<<0, 0>>}
    ELSE {IF avg # AvgNone THEN <<avg + rest[1], rest[2] + 1>> ELSE rest :
            avg \in calculate_subject_average(Head(subjs).grades),
            rest \in SubjectAvgs(Tail(subjs))}

\* an average over every subject, a subject without grades counting as 0
calculate_student_average_all(subjects_data) ==
    LET subjs == DictValues(subjects_data)
    IN UNION {IF subjs = <<>> THEN {AvgNone} ELSE Round2(sa[1], Len(subjs)) :
                sa \in SubjectAvgs(subjs)}

calculate_student_average(subjects_data) ==
    UNION {IF sa[2] = 0 THEN {AvgNone} ELSE Round2(sa[1], sa[2]) :
             sa \in SubjectAvgs(DictValues(subjects_data))}

----------------------------------------------------------------------------
(* Store: the JSON document is the set of the object's members.            *)

NoFile == [exists |-> FALSE, doc |-> {}]

JsonSubjects(subjects) == {<<k, subjects[k]>> : k \in DOMAIN subjects}

JsonStudent(s) ==
    [name |-> s.name, class |-> s.class, subjects |-> JsonSubjects(s.subjects)]

\* json.dump(data, f, ensure_ascii=False, indent=2)
JsonDump(d) == {<<sid, JsonStudent(d[sid])>> : sid \in DOMAIN d}

JsonObject(members) ==
    [k \in {m[1] : m \in members} |-> (CHOOSE m \in members : m[1] = k)[2]]

\* json.load(f)
JsonLoad(doc) ==
    LET o == JsonObject(doc)
    IN [sid \in DOMAIN o |->
          [name |-> o[sid].name, class |-> o[sid].class,
           subjects |-> JsonObject(o[sid].subjects)]]

load_data(file) == IF file.exists THEN JsonLoad(file.doc) ELSE EmptyDict

save_data(d) == [exists |-> TRUE, doc |-> JsonDump(d)]

----------------------------------------------------------------------------
(* Student ids and the selectbox labels.                                   *)

\* datetime.now().strftime('%Y%m%d%H%M%S'): the clock's second, in decimal
Timestamp(t) == Digits(t)

\* f"schueler_{len(st.session_state.data)+1}_{datetime.now().strftime(...)}"
NewId(d, t) ==
    <<"schueler_">> \o Digits(Cardinality(DOMAIN d) + 1) \o <<"_">> \o Timestamp(t)

\* f"{name} ({k})"
Label(name, k) == PyStr(name) \o <<" ", "(">> \o k \o <<")">>

\* s.split("(")[-1]
RECURSIVE AfterLastParen(_)
AfterLastParen(s) ==
    IF \E i \in DOMAIN s : s[i] = "("
    THEN AfterLastParen(SubSeq(s, (CHOOSE i \in DOMAIN s : s[i] = "(") + 1, Len(s)))
    ELSE s

\* s.strip(")")
RECURSIVE StripParen(_)
StripParen(s) ==
    IF s # <<>> /\ Head(s) = ")" THEN StripParen(Tail(s))
    ELSE IF s # <<>> /\ s[Len(s)] = ")" THEN StripParen(SubSeq(s, 1, Len(s) - 1))
    ELSE s

\* selected.split("(")[-1].strip(")")
ParseSelected(label) == StripParen(AfterLastParen(label))

----------------------------------------------------------------------------
(* CSV.  A file is [columns, rows]: whether it has a header line, and the  *)
(* text of the cells of each data row.                                     *)

\* f"{grade}" of a float grade as to_csv writes it: 13 is "1.3"
DecimalText(g) == Digits(g \div 10) \o <<".">> \o Digits(g % 10)

\* DataFrame.to_csv: NaN is written as an empty field
CsvCell(v) == IF v = NaN THEN <<>> ELSE PyStr(v)

RECURSIVE KeysSeq(_)
KeysSeq(d) == IF DOMAIN d = {} THEN <<>>
              ELSE LET k == CHOOSE k \in DOMAIN d : TRUE
                   IN <<k>> \o KeysSeq(DictDel(d, k))

ExportSubject(sid, s, subj) ==
    [i \in DOMAIN subj.grades |->
       [sid |-> CsvCell(sid), name |-> CsvCell(s.name), klasse |-> CsvCell(s.class),
        fach |-> CsvCell(subj.name), tag |-> TagOf(subj.grades[i]),
        dez |-> DecimalText(subj.grades[i])]]

RECURSIVE ExportStudent(_, _, _)
ExportStudent(sid, s, keys) ==
    IF keys = <<>> THEN <<>>
    ELSE ExportSubject(sid, s, s.subjects[Head(keys)]) \o ExportStudent(sid, s, Tail(keys))

RECURSIVE ExportStudents(_, _)
ExportStudents(d, sids) ==
    IF sids = <<>> THEN <<>>
    ELSE ExportStudent(Head(sids), d[Head(sids)], KeysSeq(d[Head(sids)].subjects))
         \o ExportStudents(d, Tail(sids))

\* an empty DataFrame has no columns: to_csv then writes no header
convert_df_to_csv(d) ==
    LET rows == ExportStudents(d, KeysSeq(d))
    IN [columns |-> rows # <<>>, rows |-> rows]

\* pandas' default na_values, those over the model's characters
NaStrings == {<<>>, <<"N", "A">>, <<"N", "a", "N">>, <<"n", "a", "n">>,
              <<"n", "u", "l", "l">>, <<"N", "U", "L", "L">>,
              <<"N", "/", "A">>, <<"n", "/", "a">>}

IsIntText(t) == t # <<>> /\ \A i \in DOMAIN t : t[i] \in DigitChars

IsFloatText(t) ==
    \E p \in 2..(Len(t) - 1) :
        /\ t[p] = "."
        /\ IsIntText(SubSeq(t, 1, p - 1))
        /\ IsIntText(SubSeq(t, p + 1, Len(t)))

\* str(int(t)): leading zeros go
RECURSIVE StripZeros(_)
StripZeros(t) == IF Len(t) > 1 /\ Head(t) = "0" THEN StripZeros(Tail(t)) ELSE t

RECURSIVE StripTrailingZeros(_)
StripTrailingZeros(t) ==
    IF Len(t) > 1 /\ t[Len(t)] = "0" THEN StripTrailingZeros(SubSeq(t, 1, Len(t) - 1))
    ELSE t

\* str(float(t)) for t an int or float text
FloatRepr(t) ==
    IF IsIntText(t) THEN StripZeros(t) \o <<".", "0">>
    ELSE LET p == CHOOSE p \in DOMAIN t : t[p] = "."
         IN StripZeros(SubSeq(t, 1, p - 1)) \o <<".">>
            \o StripTrailingZeros(SubSeq(t, p + 1, Len(t)))

\* the dtype read_csv infers for a column from the text of its cells
ColumnKind(cells) ==
    LET vals == {c \in cells : c \notin NaStrings}
    IN IF \A c \in vals : IsIntText(c)
       THEN (IF vals = {} \/ vals # cells THEN "float" ELSE "int")
       ELSE IF \A c \in vals : IsIntText(c) \/ IsFloatText(c) THEN "float"
       ELSE "object"

ParseCell(kind, t) ==
    IF t \in NaStrings THEN NaN
    ELSE IF kind = "int" THEN <<"#int">> \o StripZeros(t)
    ELSE IF kind = "float" THEN <<"#float">> \o FloatRepr(t)
    ELSE t

CsvColumns == {"sid", "name", "klasse", "fach", "tag"}

\* pd.read_csv(uploaded_file, encoding="utf-8-sig") followed by iterrows(): the
\* rows as the loop sees them.  A frame with a str column yields rows of dtype
\* object, each cell as its column holds it; a frame of numeric columns only
\* yields float rows (the column "Note (Dezimal)" is float).
ReadCsv(file) ==
    LET kind == [c \in CsvColumns |-> ColumnKind({file.rows[i][c] : i \in DOMAIN file.rows})]
        numeric == \A c \in CsvColumns : kind[c] # "object"
        eff == [c \in CsvColumns |->
                  IF numeric /\ kind[c] = "int" THEN "float" ELSE kind[c]]
    IN [i \in DOMAIN file.rows |->
          [c \in CsvColumns |-> ParseCell(eff[c], file.rows[i][c])]]

\* one pass of the loop body of the import (lines 417-432): the record set
\* after the row, and whether the row raised out of the loop
\* a loop that appends without looking the tag up: 0 for an unknown tag
ImportGradeUnchecked(grades, tag) ==
    Append(grades, IF IsStr(tag) /\ tag \in ALL_GRADE_OPTIONS
                   THEN NOTE_TEXT_TO_DECIMAL[tag] ELSE 0)

ImportGrade(grades, tag) ==
    IF IsStr(tag) /\ tag \in ALL_GRADE_OPTIONS
    THEN Append(grades, NOTE_TEXT_TO_DECIMAL[tag])
    ELSE grades

\* a loop without the membership test of line 420
ImportStudentOverwriting(d, sid, row) ==
    DictSet(d, sid, [name |-> row.name, class |-> row.klasse, subjects |-> EmptyDict])

ImportStudent(d, sid, row) ==
    IF sid \notin DOMAIN d
    THEN DictSet(d, sid, [name |-> row.name, class |-> row.klasse, subjects |-> EmptyDict])
    ELSE d

ImportRow(d, row) ==
    LET sid == PyStr(row.sid)
        d1 == ImportStudent(d, sid, row)
    IN IF ~IsStr(row.fach)
       THEN [data |-> d1, raised |-> TRUE]    \* AttributeError: no .lower()
       ELSE
         LET subj_key == SubjKey(row.fach)
             subjects1 == IF subj_key \notin DOMAIN d1[sid].subjects
                          THEN DictSet(d1[sid].subjects, subj_key,
                                       [name |-> row.fach, grades |-> <<>>])
                          ELSE d1[sid].subjects
             subj == subjects1[subj_key]
             subjects2 == DictSet(subjects1, subj_key,
                                  [subj EXCEPT !.grades = ImportGrade(subj.grades, row.tag)])
         IN [data |-> DictSet(d1, sid, [d1[sid] EXCEPT !.subjects = subjects2]),
             raised |-> FALSE]

RECURSIVE ImportRows(_, _)
ImportRows(d, rows) ==
    IF rows = <<>> THEN [data |-> d, raised |-> FALSE]
    ELSE LET r == ImportRow(d, Head(rows))
         IN IF r.raised THEN r ELSE ImportRows(r.data, Tail(rows))

----------------------------------------------------------------------------
(* What the user can type, pick and upload.                                *)

NameInputs == {<<" ">>, <<" ", "a">>, <<"b">>}
ClassInputs == {<<>>}
SubjectInputs == {<<" ">>, <<"M">>, <<"M", " ", "x", " ">>}
Dash == <<"-", "-">>
GradeInputs == {<<"1">>, <<"2", "+">>}

CsvCandidateRows ==
    { [sid |-> <<"x">>, name |-> <<"a">>, klasse |-> <<"k">>, fach |-> <<"M">>,
       tag |-> <<"1">>, dez |-> <<"1", ".", "0">>],
      [sid |-> <<"x">>, name |-> <<"b">>, klasse |-> <<>>, fach |-> <<"m">>,
       tag |-> <<"z">>, dez |-> <<"1", ".", "0">>],
      [sid |-> <<"x">>, name |-> <<"a">>, klasse |-> <<"k">>, fach |-> <<"M">>,
       tag |-> <<"7">>, dez |-> <<"7", ".", "0">>],
      [sid |-> <<"x">>, name |-> <<"a">>, klasse |-> <<"k">>, fach |-> <<>>,
       tag |-> <<"1">>, dez |-> <<"1", ".", "0">>] }

RECURSIVE SeqsUpTo(_, _)
SeqsUpTo(S, n) ==
    IF n = 0 THEN {<<>>}
    ELSE LET shorter == SeqsUpTo(S, n - 1)
         IN shorter \cup {Append(q, x) : q \in shorter, x \in S}

\* the files the user uploads: a header line and up to MaxRows rows
CsvFiles == {[columns |-> TRUE, rows |-> r] : r \in SeqsUpTo(CsvCandidateRows, MaxRows)}

\* df_import for each of them (line 411)
df_import == [file \in CsvFiles |-> ReadCsv(file)]

----------------------------------------------------------------------------
(* Sizes, for the bounds.                                                  *)

NumSubjects(d) == SumSeq([i \in 1..Len(KeysSeq(d)) |->
                            Cardinality(DOMAIN d[KeysSeq(d)[i]].subjects)])

RECURSIVE SubjectsGrades(_)
SubjectsGrades(subjs) ==
    IF subjs = <<>> THEN 0 ELSE Len(Head(subjs).grades) + SubjectsGrades(Tail(subjs))

NumGrades(d) == SumSeq([i \in 1..Len(KeysSeq(d)) |->
                          SubjectsGrades(DictValues(d[KeysSeq(d)[i]].subjects))])

WithinBounds(d) ==
    /\ Cardinality(DOMAIN d) <= MaxStudents
    /\ NumSubjects(d) <= MaxSubjects
    /\ NumGrades(d) <= MaxGrades

----------------------------------------------------------------------------
(* The session.                                                            *)

\* the messages that stay on the screen (no st.rerun() follows them)
NoMessage == "none"
NameEmpty == "Name darf nicht leer sein!"
CsvError == "Fehler beim Einlesen der CSV"
KeyErrorShown == "KeyError"

\* lines 96-103 on a machine with no noten_db.json yet
Init ==
    /\ disk = NoFile
    /\ data = load_data(NoFile)
    /\ selected = "new"
    /\ selected_student = None
    /\ confirm_delete_student = None
    /\ clock = 0
    /\ shown = NoMessage

\* line 192: the index of the selectbox is computable
EditPageRenders == selected_student = None \/ selected_student \in DOMAIN data

\* lines 216-220: a student is selected and shown; student_id is selected_student
StudentShown == selected = "student" /\ selected_student \in DOMAIN data

\* the selectbox when the edit page is rendered again after another page: its
\* widget state is gone and its index comes from selected_student
SelectedOnReturn == IF selected_student = None THEN "new" ELSE "student"

\* the user picks "Neuen Schüler anlegen"
SelectNew ==
    /\ EditPageRenders
    /\ selected' = "new"
    /\ shown' = NoMessage
    /\ UNCHANGED <<data, disk, selected_student, confirm_delete_student, clock>>

\* the user picks the label of student s (lines 217-220)
SelectStudent(s) ==
    /\ EditPageRenders
    /\ s \in DOMAIN data
    /\ LET student_id == ParseSelected(Label(data[s].name, s))
       IN /\ selected_student' = student_id
          /\ shown' = IF student_id \in DOMAIN data THEN NoMessage ELSE KeyErrorShown  \* line 220
    /\ selected' = "student"
    /\ UNCHANGED <<data, disk, confirm_delete_student, clock>>

\* a test that does not strip the name first
NameRejectedUnstripped(new_name) == new_name = <<>>

\* line 202 and line 229: if not new_name.strip()
NameRejected(new_name) == Strip(new_name) = <<>>

\* lines 201-214
CreateStudent(new_name, new_class) ==
    /\ EditPageRenders
    /\ selected = "new"
    /\ IF NameRejected(new_name)
       THEN /\ shown' = NameEmpty
            /\ UNCHANGED <<data, disk, selected, selected_student>>
       ELSE LET new_id == NewId(data, clock)
            IN /\ data' = DictSet(data, new_id,
                                  [name |-> Strip(new_name), class |-> Strip(new_class),
                                   subjects |-> EmptyDict])
               /\ WithinBounds(data')
               /\ selected_student' = new_id
               /\ disk' = save_data(data')
               /\ selected' = "student"
               /\ shown' = NoMessage
    /\ UNCHANGED <<confirm_delete_student, clock>>

\* lines 226-236
RenameStudent(new_name, new_class) ==
    /\ EditPageRenders
    /\ StudentShown
    /\ IF NameRejected(new_name)
       THEN /\ shown' = NameEmpty
            /\ UNCHANGED <<data, disk>>
       ELSE /\ data' = [data EXCEPT ![selected_student] =
                           [@ EXCEPT !.name = Strip(new_name), !.class = Strip(new_class)]]
            /\ disk' = save_data(data')
            /\ shown' = NoMessage
    /\ UNCHANGED <<selected, selected_student, confirm_delete_student, clock>>

\* lines 239-240: "Schüler löschen"
RequestDelete ==
    /\ EditPageRenders
    /\ StudentShown
    /\ confirm_delete_student' = selected_student
    /\ shown' = NoMessage
    /\ UNCHANGED <<data, disk, selected, selected_student, clock>>

\* a dialog that does not look at the request
DeleteDialogShownAlways == TRUE

\* line 242
DeleteDialogShown == confirm_delete_student = selected_student

\* a deletion that is not written to the file
ConfirmDeleteUnsaved ==
    /\ EditPageRenders
    /\ StudentShown
    /\ DeleteDialogShown
    /\ data' = DictDel(data, selected_student)
    /\ selected_student' = None
    /\ selected' = "new"
    /\ shown' = NoMessage
    /\ UNCHANGED <<disk, confirm_delete_student, clock>>

\* lines 246-251: "Ja, löschen"
ConfirmDelete ==
    /\ EditPageRenders
    /\ StudentShown
    /\ DeleteDialogShown
    /\ data' = DictDel(data, selected_student)
    /\ selected_student' = None
    /\ disk' = save_data(data')
    /\ selected' = "new"
    /\ shown' = NoMessage
    /\ UNCHANGED <<confirm_delete_student, clock>>

\* lines 253-255: "Abbrechen"
CancelDelete ==
    /\ EditPageRenders
    /\ StudentShown
    /\ DeleteDialogShown
    /\ confirm_delete_student' = None
    /\ shown' = NoMessage
    /\ UNCHANGED <<data, disk, selected, selected_student, clock>>

\* the subjects of the student shown (line 259)
Subjects == data[selected_student].subjects

SetSubjects(subjects) == [data EXCEPT ![selected_student].subjects = subjects]

SetGrades(subj_key, grades) ==
    [data EXCEPT ![selected_student].subjects[subj_key].grades = grades]

\* line 273: the expanders of the page, and line 304: the rows of one
ShownSubjectKeys == IF StudentShown THEN DOMAIN Subjects ELSE {}

ShownGradeIndices(subj_key) == DOMAIN Subjects[subj_key].grades

\* lines 261-270: "Fach hinzufügen"
AddSubject(new_subject) ==
    /\ EditPageRenders
    /\ StudentShown
    /\ IF Strip(new_subject) = <<>>
       THEN /\ shown' = NoMessage
            /\ UNCHANGED <<data, disk>>
       ELSE LET subj_key == SubjKey(Strip(new_subject))
            IN IF subj_key \notin DOMAIN Subjects
               THEN /\ data' = SetSubjects(DictSet(Subjects, subj_key,
                                      [name |-> Strip(new_subject), grades |-> <<>>]))
                    /\ WithinBounds(data')
                    /\ disk' = save_data(data')
                    /\ shown' = NoMessage
               ELSE /\ shown' = NoMessage    \* "Fach existiert bereits"
                    /\ UNCHANGED <<data, disk>>
    /\ UNCHANGED <<selected, selected_student, confirm_delete_student, clock>>

\* lines 277-280
DeleteSubject(subj_key) ==
    /\ EditPageRenders
    /\ StudentShown
    /\ subj_key \in DOMAIN Subjects
    /\ data' = SetSubjects(DictDel(Subjects, subj_key))
    /\ disk' = save_data(data')
    /\ shown' = NoMessage
    /\ UNCHANGED <<selected, selected_student, confirm_delete_student, clock>>

\* lines 297-301: "Note speichern" with the selectbox on new_grade
AddGrade(subj_key, new_grade) ==
    /\ EditPageRenders
    /\ StudentShown
    /\ subj_key \in DOMAIN Subjects
    /\ IF new_grade = Dash
       THEN /\ shown' = NoMessage
            /\ UNCHANGED <<data, disk>>
       ELSE /\ data' = SetGrades(subj_key, Append(Subjects[subj_key].grades,
                                                  NOTE_TEXT_TO_DECIMAL[new_grade]))
            /\ WithinBounds(data')
            /\ disk' = save_data(data')
            /\ shown' = NoMessage
    /\ UNCHANGED <<selected, selected_student, confirm_delete_student, clock>>

\* lines 304-317: the selectbox of grade i is set to another tag
EditGrade(subj_key, i, edited) ==
    /\ EditPageRenders
    /\ StudentShown
    /\ subj_key \in DOMAIN Subjects
    /\ i \in DOMAIN Subjects[subj_key].grades
    /\ edited # TagOf(Subjects[subj_key].grades[i])
    /\ data' = SetGrades(subj_key, [Subjects[subj_key].grades EXCEPT
                                      ![i] = NOTE_TEXT_TO_DECIMAL[edited]])
    /\ disk' = save_data(data')
    /\ shown' = NoMessage
    /\ UNCHANGED <<selected, selected_student, confirm_delete_student, clock>>

\* del grades[i]
DelAt(grades, i) == SubSeq(grades, 1, i - 1) \o SubSeq(grades, i + 1, Len(grades))

\* lines 320-323
DeleteGrade(subj_key, i) ==
    /\ EditPageRenders
    /\ StudentShown
    /\ subj_key \in DOMAIN Subjects
    /\ i \in DOMAIN Subjects[subj_key].grades
    /\ data' = SetGrades(subj_key, DelAt(Subjects[subj_key].grades, i))
    /\ disk' = save_data(data')
    /\ shown' = NoMessage
    /\ UNCHANGED <<selected, selected_student, confirm_delete_student, clock>>

\* lines 168-170, on the overview page (shown when there are rows)
ResetSelection ==
    /\ data # EmptyDict
    /\ selected_student' = None
    /\ selected' = "new"
    /\ shown' = NoMessage
    /\ UNCHANGED <<data, disk, confirm_delete_student, clock>>

\* line 399: the file behind the download button of the statistics page
csv_data == convert_df_to_csv(data)

\* lines 408-437, on the statistics page (shown when there are students)
ImportCsv(file) ==
    /\ data # EmptyDict
    /\ LET r == ImportRows(data, df_import[file])
       IN /\ data' = r.data
          /\ WithinBounds(data')
          /\ disk' = IF r.raised THEN disk ELSE save_data(data')
          /\ shown' = IF r.raised THEN CsvError ELSE NoMessage
    /\ selected' = SelectedOnReturn
    /\ UNCHANGED <<selected_student, confirm_delete_student, clock>>

\* a second passes
Tick ==
    /\ clock < MaxClock
    /\ clock' = clock + 1
    /\ UNCHANGED <<data, disk, selected, selected_student, confirm_delete_student, shown>>

\* the session ends and a new one starts: lines 96-103 run again
Restart ==
    /\ data' = load_data(disk)
    /\ selected' = "new"
    /\ selected_student' = None
    /\ confirm_delete_student' = None
    /\ shown' = NoMessage
    /\ UNCHANGED <<disk, clock>>

\* the handlers of the students
StudentActions ==
    \/ SelectNew
    \/ \E s \in DOMAIN data : SelectStudent(s)
    \/ \E n \in NameInputs, c \in ClassInputs : CreateStudent(n, c)
    \/ \E n \in NameInputs, c \in ClassInputs : RenameStudent(n, c)
    \/ ResetSelection
    \/ \E f \in CsvFiles : ImportCsv(f)
    \/ Restart

\* the two-step deletion of a student, and the clock
DeleteActions ==
    \/ RequestDelete
    \/ ConfirmDelete
    \/ CancelDelete
    \/ Tick

\* the handlers of the subjects and grades of the student shown
GradeActions ==
    \/ \E n \in SubjectInputs : AddSubject(n)
    \/ \E k \in ShownSubjectKeys : DeleteSubject(k)
    \/ \E k \in ShownSubjectKeys, g \in GradeInputs \cup {Dash} : AddGrade(k, g)
    \/ \E k \in ShownSubjectKeys : \E i \in ShownGradeIndices(k), g \in GradeInputs :
          EditGrade(k, i, g)
    \/ \E k \in ShownSubjectKeys : \E i \in ShownGradeIndices(k) : DeleteGrade(k, i)

Next == StudentActions \/ DeleteActions \/ GradeActions

\* every handler of the script
Spec == Init /\ [][Next]_vars

\* students are created, renamed, imported and deleted; subjects and grades
\* come from imports only
NextStudents == StudentActions \/ DeleteActions

SpecStudents == Init /\ [][NextStudents]_vars

\* students are created, renamed and imported within one second and none is
\* deleted; their subjects and grades are edited
NextGrading == StudentActions \/ GradeActions

SpecGrading == Init /\ [][NextGrading]_vars

----------------------------------------------------------------------------
(* Claims.                                                                 *)

\* C1: after every completed user action the persisted JSON document equals
\* the in-memory record set.
C1_PersistedEqualsMemory == load_data(disk) = data

\* C2: the id generated for a new student is never the id of a student
\* already in the record set, so creating a student never replaces one.
C2_NewIdIsFresh ==
    [][\A n \in NameInputs, c \in ClassInputs :
          (CreateStudent(n, c) /\ data' # data) =>
              /\ NewId(data, clock) \notin DOMAIN data
              /\ \A sid \in DOMAIN data : sid \in DOMAIN data' /\ data'[sid] = data[sid]]_vars

AllGrades(d) ==
    UNION {UNION {{d[sid].subjects[k].grades[i] : i \in DOMAIN d[sid].subjects[k].grades} :
                    k \in DOMAIN d[sid].subjects} : sid \in DOMAIN d}

\* C3: every grade held in any subject's grade sequence, in memory and in
\* the persisted document, is one of the 16 values of the grade scale.
C3_GradesInScale ==
    /\ AllGrades(data) \subseteq GradeValues
    /\ AllGrades(load_data(disk)) \subseteq GradeValues

\* a grade appended by an import is held and persisted beside one entered
\* on the edit page
C3_Witness ==
    /\ <<"x">> \in DOMAIN data
    /\ \E k \in DOMAIN data[<<"x">>].subjects : data[<<"x">>].subjects[k].grades # <<>>
    /\ \E sid \in DOMAIN data \ {<<"x">>} : \E k \in DOMAIN data[sid].subjects :
          \E i \in DOMAIN data[sid].subjects[k].grades : data[sid].subjects[k].grades[i] = 17
    /\ load_data(disk) = data

\* how often v occurs in a sequence
Count(q, v) == Cardinality({i \in DOMAIN q : q[i] = v})

\* the same students (id, name, class), for each the same subjects (key,
\* name), and for each subject the same multiset of grades
Equivalent(d, e) ==
    /\ DOMAIN d = DOMAIN e
    /\ \A sid \in DOMAIN d :
          /\ d[sid].name = e[sid].name
          /\ d[sid].class = e[sid].class
          /\ DOMAIN d[sid].subjects = DOMAIN e[sid].subjects
          /\ \A k \in DOMAIN d[sid].subjects :
                /\ d[sid].subjects[k].name = e[sid].subjects[k].name
                /\ \A v \in GradeValues :
                      Count(d[sid].subjects[k].grades, v) = Count(e[sid].subjects[k].grades, v)

\* the record set after the file is imported into an empty record set; a
\* file without a header line is refused by read_csv (EmptyDataError)
ImportedIntoEmpty(file) ==
    IF file.columns THEN ImportRows(EmptyDict, ReadCsv(file)).data ELSE EmptyDict

\* C4: exporting the record set to CSV and importing that CSV into an empty
\* record set yields an equivalent record set.
C4_CsvRoundTrip == Equivalent(ImportedIntoEmpty(csv_data), data)

IsPrefix(p, q) == Len(p) <= Len(q) /\ SubSeq(q, 1, Len(p)) = p

Extends(d, e) ==
    \A sid \in DOMAIN d :
        /\ sid \in DOMAIN e
        /\ e[sid].name = d[sid].name
        /\ e[sid].class = d[sid].class
        /\ \A k \in DOMAIN d[sid].subjects :
              /\ k \in DOMAIN e[sid].subjects
              /\ e[sid].subjects[k].name = d[sid].subjects[k].name
              /\ IsPrefix(d[sid].subjects[k].grades, e[sid].subjects[k].grades)

\* C5: a CSV import only extends the record set: students and subjects
\* present before keep their name and class, each grade sequence before the
\* import is a prefix of the one after it, and none is absent after it.
C5_ImportOnlyExtends ==
    [][Extends(data, data') \/ \A f \in CsvFiles : ~ImportCsv(f)]_vars

\* student x, created with name "a" and class "k" by an import that stopped
\* at a row without subject, was extended by a later import whose rows are
\* named "b": subject "m" was created and a grade appended, the name stayed
C5_Witness ==
    /\ <<"x">> \in DOMAIN data
    /\ data[<<"x">>].name = <<"a">>
    /\ data[<<"x">>].class = <<"k">>
    /\ <<"m">> \in DOMAIN data[<<"x">>].subjects
    /\ data[<<"x">>].subjects[<<"m">>].name = <<"m">>
    /\ data[<<"x">>].subjects[<<"m">>].grades # <<>>
    /\ load_data(disk) = data

RECURSIVE GoodTagRows(_)
GoodTagRows(rows) ==
    IF rows = <<>> THEN 0
    ELSE (IF Head(rows).tag \in ALL_GRADE_OPTIONS THEN 1 ELSE 0) + GoodTagRows(Tail(rows))

\* C6: a row whose grade tag is not one of the 16 tags raises no error out
\* of the import and appends no grade, and every later row is still
\* processed: its recognised grade is appended and the final save happens.
\* (Stated for files whose first row has the bad tag and whose rows all name
\* a subject.)
C6_BadTagRowSkipped ==
    [][\A f \in CsvFiles :
          ( /\ ImportCsv(f)
            /\ f.rows # <<>>
            /\ Head(f.rows).tag \notin ALL_GRADE_OPTIONS
            /\ \A i \in DOMAIN f.rows : f.rows[i].fach \notin NaStrings )
          => /\ shown' # CsvError
             /\ disk' = save_data(data')
             /\ NumGrades(data') = NumGrades(data) + GoodTagRows(Tail(f.rows))]_vars

IsBlank(t) == \A i \in DOMAIN t : t[i] = " "

\* C7: 'create student' or 'rename student' with a name that is empty or
\* only whitespace changes neither the in-memory record set nor the
\* persisted document nor the selected student, and every student name
\* stored by create or rename is non-empty.
C7_BlankNameRejected ==
    [][\A n \in NameInputs, c \in ClassInputs :
          (CreateStudent(n, c) \/ RenameStudent(n, c)) =>
              IF IsBlank(n)
              THEN UNCHANGED <<data, disk, selected_student>>
              ELSE /\ selected_student' \in DOMAIN data'
                   /\ IsStr(data'[selected_student'].name)
                   /\ data'[selected_student'].name # <<>>]_vars

\* a rename with a blank name was refused for a student whose name stands,
\* in memory and on disk
C7_Witness ==
    /\ shown = NameEmpty
    /\ StudentShown
    /\ data[selected_student].name = <<"b">>
    /\ load_data(disk) = data

Abs(n) == IF n < 0 THEN -n ELSE n

\* a is the mean of the grades (in tenths), to the nearest hundredth
IsRoundedMeanOfGrades(a, grades) ==
    2 * Abs(a * Len(grades) - 10 * SumSeq(grades)) <= Len(grades)

\* r is the mean, to the nearest hundredth, of one rounded mean per subject
\* in `graded`
RECURSIVE IsMeanOfSubjectMeans(_, _, _, _, _)
IsMeanOfSubjectMeans(r, subjects, graded, sum, n) ==
    IF graded = {}
    THEN 2 * Abs(r * n - sum) <= n
    ELSE LET k == CHOOSE k \in graded : TRUE
             lo == (10 * SumSeq(subjects[k].grades)) \div Len(subjects[k].grades)
         IN \E a \in lo..(lo + 1) :
               /\ IsRoundedMeanOfGrades(a, subjects[k].grades)
               /\ IsMeanOfSubjectMeans(r, subjects, graded \ {k}, sum + a, n + 1)

StudentAverageIsRight(subjects) ==
    LET graded == {k \in DOMAIN subjects : subjects[k].grades # <<>>}
        results == calculate_student_average(subjects)
    IN IF graded = {}
       THEN results = {AvgNone}
       ELSE \A r \in results :
               /\ r # AvgNone
               /\ IsMeanOfSubjectMeans(r, subjects, graded, 0, 0)

ExampleSubjects ==
    (<<"a">> :> [name |-> <<"A">>, grades |-> <<10, 10>>]) @@
    (<<"b">> :> [name |-> <<"B">>, grades |-> <<60>>])

\* C8: studentAverage is undefined exactly when no subject has a grade;
\* otherwise it is the mean, rounded to 2 decimals, of the rounded means of
\* the subjects that have a grade; {A:[1.0,1.0], B:[6.0]} gives 3.5.
C8_StudentAverage ==
    /\ \A sid \in DOMAIN data : StudentAverageIsRight(data[sid].subjects)
    /\ calculate_student_average(ExampleSubjects) = {350}

\* the mean of all grades of the subjects, to the nearest hundredth
FlatMeans(subjects) ==
    LET all == DictValues(subjects)
    IN Round2(10 * SumSeq([i \in DOMAIN all |-> SumSeq(all[i].grades)]),
              SumSeq([i \in DOMAIN all |-> Len(all[i].grades)]))

\* a student has two graded subjects and an average that is not the mean of
\* all its grades
C8_Witness ==
    \E sid \in DOMAIN data :
        LET subjects == data[sid].subjects
            results == calculate_student_average(subjects)
        IN /\ \A k \in DOMAIN subjects : subjects[k].grades # <<>>
           /\ Cardinality(DOMAIN subjects) = 2
           /\ results \cap FlatMeans(subjects) = {}

\* C9: after a student deletion is confirmed, a load of the persisted
\* document has no entry for that student's id, and every other student is
\* exactly as before the deletion.
C9_DeleteRemovesStudent ==
    [][ConfirmDelete =>
          LET loaded == load_data(disk')
          IN /\ selected_student \notin DOMAIN loaded
             /\ \A o \in DOMAIN data \ {selected_student} :
                   o \in DOMAIN loaded /\ loaded[o] = data[o]]_vars

\* a student was deleted (its request is still recorded) and another one,
\* with a subject and a grade, is left in memory and on disk
C9_Witness ==
    /\ confirm_delete_student # None
    /\ confirm_delete_student \notin DOMAIN data
    /\ \E o \in DOMAIN data : \E k \in DOMAIN data[o].subjects :
          data[o].subjects[k].grades # <<>>
    /\ load_data(disk) = data

\* C10: within a session a student id leaves the record set only by the
\* 'yes, delete' step taken while a delete request for that id is pending;
\* a request becomes pending only by 'delete student' on that student, and
\* 'cancel' ends it, so that a new request is needed.
C10_DeleteNeedsPendingRequest ==
    [][ /\ \A s \in DOMAIN data :
             (s \notin DOMAIN data' /\ ~Restart) =>
                 /\ ConfirmDelete
                 /\ confirm_delete_student = s
                 /\ selected_student = s
        /\ \A s \in DOMAIN load_data(disk) :
             s \notin DOMAIN load_data(disk') =>
                 ConfirmDelete /\ confirm_delete_student = s
        /\ (confirm_delete_student' # confirm_delete_student
               /\ confirm_delete_student' # None) =>
                 RequestDelete /\ confirm_delete_student' = selected_student
        /\ CancelDelete =>
                 confirm_delete_student' = None ]_vars

\* every student was deleted after a request
C10_Witness ==
    /\ confirm_delete_student # None
    /\ data = EmptyDict
    /\ load_data(disk) = EmptyDict
    /\ disk.exists

====
